---- MODULE Spec2Model ----
\* A model of Aracari (src/src/utils.ts): the text -> address mapping of a
\* DOM-like tree and the regex driven replaceText / remap operations.
\*
\* Strings are sequences of one-character strings, so that the regular
\* expressions of the source can be interpreted character by character.
EXTENDS Integers, Sequences, FiniteSets, TLC

\* root, mapping: the fields of the Aracari object (config is the default).
\* synced: the mapping was built from the tree as it is now (by the
\*   constructor or remap()) and no replaceText has succeeded since.
\* nrep: the number of successful replaceText calls so far.
\* call, ret: the operation the caller has just made and what it returned;
\*   call.op = "idle" between calls.
VARIABLES root, mapping, synced, nrep, call, ret

vars == <<root, mapping, synced, nrep, call, ret>>

\* ------------------------------------------------------------------ bounds
\* Longest text of the single leaf of an initial one-leaf tree.
MaxLen == 3
\* Largest replacementIndex a caller passes.
MaxIndex == 1
\* Number of successful replaceText calls explored from an initial tree.
MaxReplace == 2

\* ------------------------------------------------------------- characters
Str0 == <<>>

\* wordBoundaryChars: . ! ? ' " - , and \s
IsBoundaryChar(c) == c \in {".", "!", "?", "'", "\"", "-", ",", " "}

\* reRegExpChar: the characters escapeRegExp escapes
IsRegExpChar(c) == c \in {"\\", "^", "$", ".", "*", "+", "?", "(", ")", "[", "]", "{", "}", "|"}

\* \w of the RegExp engine (used by \b)
IsWordChar(c) == c \in {"a", "b", "c", "A", "B", "C", "u", "n", "d", "e", "f", "i", "_",
                        "0", "1", "2", "3", "4", "5", "6", "7", "8", "9"}

\* Canonical case folding of the "i" flag.
Fold(c) == CASE c = "A" -> "a" [] c = "B" -> "b" [] c = "C" -> "c" [] OTHER -> c

\* String(undefined), what RegExp.prototype.test coerces undefined to.
UndefinedStr == <<"u", "n", "d", "e", "f", "i", "n", "e", "d">>

RECURSIVE Concat(_)
Concat(ss) == IF ss = <<>> THEN Str0 ELSE Head(ss) \o Concat(Tail(ss))

\* s.slice(from, to) with 0-based from (inclusive) and to (exclusive)
Slice(s, from, to) ==
  LET f == IF from < 0 THEN 0 ELSE IF from > Len(s) THEN Len(s) ELSE from
      t == IF to < f THEN f ELSE IF to > Len(s) THEN Len(s) ELSE to
  IN  [i \in 1..(t - f) |-> s[f + i]]

\* ------------------------------------------------------- regular expressions
\* escapeRegExp: a backslash in front of every RegExp special character.
RECURSIVE EscapeChars(_)
EscapeChars(text) ==
  IF text = <<>> THEN <<>>
  ELSE (IF IsRegExpChar(Head(text)) THEN <<"\\", Head(text)>> ELSE <<Head(text)>>)
       \o EscapeChars(Tail(text))

escapeRegExp(text) ==
  IF text # <<>> /\ (\E i \in 1..Len(text) : IsRegExpChar(text[i]))
  THEN EscapeChars(text)
  ELSE text

\* The atoms of a pattern source: "\c" is the literal c, an unescaped "." is
\* any character, every other character is itself.
RECURSIVE Atoms(_)
Atoms(src) ==
  IF src = <<>> THEN <<>>
  ELSE IF Head(src) = "\\" /\ Len(src) >= 2
       THEN <<[any |-> FALSE, c |-> src[2]]>> \o Atoms(Tail(Tail(src)))
       ELSE <<[any |-> (Head(src) = "."), c |-> Head(src)]>> \o Atoms(Tail(src))

AtomMatches(atom, c, ignoreCase) ==
  \/ atom.any
  \/ atom.c = c
  \/ ignoreCase /\ Fold(atom.c) = Fold(c)

\* The atoms match s at 0-based position q.
AtomsAt(atoms, s, q, ignoreCase) ==
  /\ q >= 0
  /\ q + Len(atoms) <= Len(s)
  /\ \A i \in 1..Len(atoms) : AtomMatches(atoms[i], s[q + i], ignoreCase)

\* A createRegExpSearch that leaves the delimiters out.
createRegExpSearch_NoDelimiters(search, preserveWord) ==
  [startDelimiter |-> FALSE,
   endDelimiter   |-> FALSE,
   atoms          |-> Atoms(escapeRegExp(search)),
   ignoreCase     |-> FALSE]

\* createRegExpSearch: (?:^|[bdry]) escaped search (?:$|[bdry]), flag g
createRegExpSearch(search, preserveWord) ==
  [startDelimiter |-> preserveWord,
   endDelimiter   |-> preserveWord,
   atoms          |-> Atoms(escapeRegExp(search)),
   ignoreCase     |-> FALSE]

\* End (exclusive, 0-based) of the body and end delimiter matched from
\* position b, or -1: "$" is tried before a boundary character.
EndFrom(pattern, s, b) ==
  IF ~AtomsAt(pattern.atoms, s, b, pattern.ignoreCase) THEN -1
  ELSE LET e == b + Len(pattern.atoms)
       IN  IF ~pattern.endDelimiter THEN e
           ELSE IF e = Len(s) THEN e
           ELSE IF IsBoundaryChar(s[e + 1]) THEN e + 1
           ELSE -1

\* End (exclusive) of the match that starts exactly at q, or -1: "^" is
\* tried before a boundary character.
MatchAt(pattern, s, q) ==
  IF ~pattern.startDelimiter THEN EndFrom(pattern, s, q)
  ELSE LET viaCaret == IF q = 0 THEN EndFrom(pattern, s, q) ELSE -1
       IN  IF viaCaret >= 0 THEN viaCaret
           ELSE IF q < Len(s) /\ IsBoundaryChar(s[q + 1])
                THEN EndFrom(pattern, s, q + 1)
                ELSE -1

\* RegExp exec from lastIndex: the leftmost match at or after it,
\* as <<start, end>>, or <<-1, -1>>.
RECURSIVE ExecFrom(_, _, _)
ExecFrom(pattern, s, lastIndex) ==
  IF lastIndex > Len(s) THEN <<-1, -1>>
  ELSE LET e == MatchAt(pattern, s, lastIndex)
       IN  IF e >= 0 THEN <<lastIndex, e>> ELSE ExecFrom(pattern, s, lastIndex + 1)

\* String.prototype.match with a global pattern: the matched substrings in
\* order; the empty sequence stands for null.
RECURSIVE MatchAll(_, _, _)
MatchAll(pattern, s, lastIndex) ==
  LET m == ExecFrom(pattern, s, lastIndex)
  IN  IF m[1] < 0 THEN <<>>
      ELSE <<Slice(s, m[1], m[2])>>
           \o MatchAll(pattern, s, IF m[2] = m[1] THEN m[2] + 1 ELSE m[2])

StringMatch(s, pattern) == MatchAll(pattern, s, 0)

\* String.prototype.split with a pattern (no capture groups): the loop of
\* the language specification, p the end of the last separator, q the
\* position tried.
RECURSIVE SplitLoop(_, _, _, _)
SplitLoop(pattern, s, p, q) ==
  IF q >= Len(s) THEN <<Slice(s, p, Len(s))>>
  ELSE LET e == MatchAt(pattern, s, q)
       IN  IF e < 0 \/ e = p
           THEN SplitLoop(pattern, s, p, q + 1)
           ELSE <<Slice(s, p, q)>> \o SplitLoop(pattern, s, e, e)

StringSplit(s, pattern) ==
  IF Len(s) = 0
  THEN IF MatchAt(pattern, s, 0) >= 0 THEN <<>> ELSE <<s>>
  ELSE SplitLoop(pattern, s, 0, 0)

\* getSurroundingChars: the boundary character a match starts with and the
\* one it ends with; matchText is undefined when the index is out of range.
getSurroundingChars(matches, index) ==
  LET matchText == IF index >= 0 /\ index < Len(matches)
                   THEN matches[index + 1] ELSE UndefinedStr
      leadingChar == IF matchText # <<>> /\ IsBoundaryChar(matchText[1])
                     THEN <<matchText[1]>> ELSE Str0
      endingChar  == IF matchText # <<>> /\ IsBoundaryChar(matchText[Len(matchText)])
                     THEN <<matchText[Len(matchText)]>> ELSE Str0
  IN  <<leadingChar, endingChar>>

\* The string onJoin returns in replaceText for the match at index.
Rejoin(text, matches, index) ==
  LET sc == getSurroundingChars(matches, index)
  IN  sc[1] \o text \o sc[2]

\* joinArrayWith with the onJoin of replaceText; offset is 1 for preText
\* (textMatch[nextIndex - 1]) and 0 for postText (textMatch[nextIndex]).
RECURSIVE JoinFrom(_, _, _, _, _)
JoinFrom(arr, i, text, matches, offset) ==
  IF i >= Len(arr) THEN Str0
  ELSE (IF i = 0 THEN Str0 ELSE Rejoin(text, matches, i - offset))
       \o arr[i + 1] \o JoinFrom(arr, i + 1, text, matches, offset)

joinArrayWith(arr, text, matches, offset) == JoinFrom(arr, 0, text, matches, offset)

\* ------------------------------------------------------------------- nodes
\* Node.TEXT_NODE, the default of config.textNodeType
TEXT_NODE == 3
TextNode(t) == [nodeType |-> TEXT_NODE, data |-> t, childNodes |-> <<>>]
\* An element (nodeType 1) with its children.
Element(kids) == [nodeType |-> 1, data |-> Str0, childNodes |-> kids]

\* What walkNodes returns for a child that does not exist.
Undefined == [nodeType |-> 0, data |-> Str0, childNodes |-> <<>>]

\* node.textContent: the data of a text node, the concatenated text of the
\* descendants of an element.
RECURSIVE TextContent(_)
RECURSIVE KidsText(_)
TextContent(node) ==
  IF node.nodeType = TEXT_NODE THEN node.data ELSE KidsText(node.childNodes)
KidsText(kids) ==
  IF kids = <<>> THEN Str0 ELSE TextContent(Head(kids)) \o KidsText(Tail(kids))

\* ---------------------------------------------------------------- addresses
DigitChar(d) ==
  CASE d = 0 -> "0" [] d = 1 -> "1" [] d = 2 -> "2" [] d = 3 -> "3" [] d = 4 -> "4"
    [] d = 5 -> "5" [] d = 6 -> "6" [] d = 7 -> "7" [] d = 8 -> "8" [] OTHER -> "9"

IsDigit(c) == c \in {"0", "1", "2", "3", "4", "5", "6", "7", "8", "9"}

DigitValue(c) ==
  CASE c = "0" -> 0 [] c = "1" -> 1 [] c = "2" -> 2 [] c = "3" -> 3 [] c = "4" -> 4
    [] c = "5" -> 5 [] c = "6" -> 6 [] c = "7" -> 7 [] c = "8" -> 8 [] OTHER -> 9

\* String(n) of a non-negative index
RECURSIVE NumberToString(_)
NumberToString(n) ==
  IF n < 10 THEN <<DigitChar(n)>>
  ELSE NumberToString(n \div 10) \o <<DigitChar(n % 10)>>

\* [...path, i].join(".")
RECURSIVE JoinDots(_)
JoinDots(path) ==
  IF path = <<>> THEN Str0
  ELSE IF Len(path) = 1 THEN NumberToString(Head(path))
  ELSE NumberToString(Head(path)) \o <<".">> \o JoinDots(Tail(path))

\* address.split("."): the segments between the dots, at least one
RECURSIVE SplitDots(_, _)
SplitDots(s, cur) ==
  IF s = <<>> THEN <<cur>>
  ELSE IF Head(s) = "." THEN <<cur>> \o SplitDots(Tail(s), Str0)
  ELSE SplitDots(Tail(s), Append(cur, Head(s)))

\* parseInt(seg, 10): leading white space is skipped, then the longest
\* prefix of digits is read; NaN when there is none.
RECURSIVE ParseDigits(_, _, _)
ParseDigits(s, acc, any) ==
  IF s # <<>> /\ IsDigit(Head(s))
  THEN ParseDigits(Tail(s), acc * 10 + DigitValue(Head(s)), TRUE)
  ELSE [nan |-> ~any, value |-> acc]

RECURSIVE parseInt(_)
parseInt(seg) ==
  IF seg # <<>> /\ Head(seg) = " " THEN parseInt(Tail(seg))
  ELSE ParseDigits(seg, 0, FALSE)

ParsePath(address) ==
  LET segs == SplitDots(address, Str0)
  IN  [i \in 1..Len(segs) |-> parseInt(segs[i])]

\* walkNodes: follows the child indices from parent; Undefined as soon as
\* a child does not exist (an index out of range, NaN, a node without
\* children).
RECURSIVE walkNodes(_, _)
walkNodes(parent, path) ==
  IF path = <<>> \/ parent = Undefined THEN parent
  ELSE LET childNth == Head(path)
           child == IF ~childNth.nan /\ childNth.value < Len(parent.childNodes)
                    THEN parent.childNodes[childNth.value + 1]
                    ELSE Undefined
       IN  walkNodes(child, Tail(path))

getNodeByAddress(rt, address) == walkNodes(rt, ParsePath(address))

\* The position in the tree of the node getNodeByAddress(address) returns
\* (a node is an object: replaceWith acts on that one node).
NodePath(address) ==
  LET p == ParsePath(address) IN [i \in 1..Len(p) |-> p[i].value]

\* getTextNodeMapping: the [text, address] pairs of the text nodes below
\* parent, children in index order, elements with children descended into.
RECURSIVE getTextNodeMapping(_, _)
RECURSIVE MapChildren(_, _, _)
\* A getTextNodeMapping that starts at the second child.
getTextNodeMapping_SkipsFirst(parent, path) == MapChildren(parent.childNodes, 1, path)

getTextNodeMapping(parent, path) == MapChildren(parent.childNodes, 0, path)
MapChildren(kids, i, path) ==
  IF i >= Len(kids) THEN <<>>
  ELSE LET node == kids[i + 1]
       IN  (IF node.nodeType = TEXT_NODE
            THEN << <<TextContent(node), JoinDots(Append(path, i))>> >>
            ELSE IF Len(node.childNodes) > 0
                 THEN getTextNodeMapping(node, Append(path, i))
                 ELSE <<>>)
           \o MapChildren(kids, i + 1, path)

\* node.replaceWith(...nodes) for the node at path (0-based child indices).
RECURSIVE ReplaceWith(_, _, _)
ReplaceWith(parent, path, nodes) ==
  LET i == Head(path)
      kids == parent.childNodes
  IN  IF Len(path) = 1
      THEN [parent EXCEPT !.childNodes =
              SubSeq(kids, 1, i) \o nodes \o SubSeq(kids, i + 2, Len(kids))]
      ELSE [parent EXCEPT !.childNodes =
              [kids EXCEPT ![i + 1] = ReplaceWith(kids[i + 1], Tail(path), nodes)]]

\* ------------------------------------------------------------------ queries
\* null, as an address or a text
Null == <<"null">>

\* !value of an address: null and the empty string are falsy
Falsy(address) == address = Null \/ address = Str0

\* \b at 0-based position p of s: exactly one side is a word character.
WordBoundaryAt(s, p) ==
  LET before == p > 0 /\ IsWordChar(s[p])
      after  == p < Len(s) /\ IsWordChar(s[p + 1])
  IN  before # after

\* The flags of the pattern of getMappingsForText: `${caseSensitive ? "i" : ""}g`
IgnoreCaseFlag(caseSensitive) == caseSensitive

\* !!text.match(pattern) for the pattern of getMappingsForText
LookupMatches(s, text, caseSensitive, preserveWord) ==
  LET atoms == Atoms(escapeRegExp(text))
  IN  \E q \in 0..Len(s) :
        /\ AtomsAt(atoms, s, q, IgnoreCaseFlag(caseSensitive))
        /\ preserveWord => WordBoundaryAt(s, q) /\ WordBoundaryAt(s, q + Len(atoms))

\* this.mapping.filter(...)
RECURSIVE getMappingsForText(_, _, _, _)
getMappingsForText(mp, text, caseSensitive, preserveWord) ==
  IF mp = <<>> THEN <<>>
  ELSE (IF LookupMatches(Head(mp)[1], text, caseSensitive, preserveWord)
        THEN <<Head(mp)>> ELSE <<>>)
       \o getMappingsForText(Tail(mp), text, caseSensitive, preserveWord)

getText(mp) == Concat([i \in 1..Len(mp) |-> mp[i][1]])

getAddressForText(mp, text, caseSensitive, preserveWord) ==
  LET matchedNode == getMappingsForText(mp, text, caseSensitive, preserveWord)
  IN  IF matchedNode # <<>> THEN matchedNode[1][2] ELSE Null

getAddressesForText(mp, text, caseSensitive, preserveWord) ==
  LET matchedNode == getMappingsForText(mp, text, caseSensitive, preserveWord)
  IN  [i \in 1..Len(matchedNode) |-> matchedNode[i][2]]

\* this.mapping.find(...): the first entry with that address
getMappingFromAddress(mp, address) ==
  LET hits == {i \in 1..Len(mp) : mp[i][2] = address}
  IN  IF hits = {} THEN <<>>
      ELSE mp[CHOOSE i \in hits : \A j \in hits : i <= j]

getTextByAddress(mp, address) ==
  LET node == getMappingFromAddress(mp, address)
  IN  IF node # <<>> THEN node[1] ELSE Null

\* An isInSingleNode that asks for exactly one matching entry.
isInSingleNode_ExactlyOne(mp, text, caseSensitive) ==
  Len(getMappingsForText(mp, text, caseSensitive, FALSE)) = 1

isInSingleNode(mp, text, caseSensitive) ==
  ~Falsy(getAddressForText(mp, text, caseSensitive, FALSE))

\* The address getTextNode resolves, null when the lookup finds nothing.
getTextNodeAddress(mp, text, caseSensitive, preserveWord) ==
  LET address == getAddressForText(mp, text, caseSensitive, preserveWord)
  IN  IF Falsy(address) THEN Null ELSE address

getTextNode(rt, mp, text, caseSensitive, preserveWord) ==
  LET address == getTextNodeAddress(mp, text, caseSensitive, preserveWord)
  IN  IF address = Null THEN Undefined ELSE getNodeByAddress(rt, address)

\* ------------------------------------------------------------- replaceText
\* An option the caller may leave out is "omitted", "true" or "false".
OrDefault(option, default) == IF option = "omitted" THEN default ELSE option = "true"

\* The address of the node replaceText works on: `at` when it is truthy,
\* else the address the text lookup finds (preserveWord undefined takes the
\* default false of getTextNode); null when the lookup finds nothing.
TargetAddress(mp, text, at, preserveWord, caseSensitive) ==
  IF at # Str0 THEN at
  ELSE getTextNodeAddress(mp, text, caseSensitive, OrDefault(preserveWord, FALSE))

TargetNode(rt, mp, text, at, preserveWord, caseSensitive) ==
  LET address == TargetAddress(mp, text, at, preserveWord, caseSensitive)
  IN  IF address = Null THEN Undefined ELSE getNodeByAddress(rt, address)

\* createRegExpSearch(text, preserveWord ?? true)
ReplacePattern(text, preserveWord) == createRegExpSearch(text, OrDefault(preserveWord, TRUE))

\* maybeCreateTextNode: no node for the empty string
maybeCreateTextNode(text) == IF Len(text) = 0 THEN <<>> ELSE <<TextNode(text)>>

\* The node list replaceText builds for a node with the given textContent.
ReplacementNodes(content, text, nodes, preserveWord, replacementIndex) ==
  LET pattern   == ReplacePattern(text, preserveWord)
      textMatch == StringMatch(content, pattern)
      contents  == StringSplit(content, pattern)
      sc        == getSurroundingChars(textMatch, replacementIndex)
      preText   == joinArrayWith(Slice(contents, 0, replacementIndex + 1), text, textMatch, 1)
      postText  == joinArrayWith(Slice(contents, replacementIndex + 1, Len(contents)),
                                 text, textMatch, 0)
  IN  maybeCreateTextNode(preText \o sc[1]) \o nodes \o maybeCreateTextNode(sc[2] \o postText)

\* A replaceText that substitutes the node list before it looks at the match.
replaceText_Eager(rt, mp, text, nodes, at, preserveWord, replacementIndex, caseSensitive) ==
  LET address   == TargetAddress(mp, text, at, preserveWord, caseSensitive)
      node      == TargetNode(rt, mp, text, at, preserveWord, caseSensitive)
      content   == TextContent(node)
      textMatch == IF node = Undefined THEN <<>>
                   ELSE StringMatch(content, ReplacePattern(text, preserveWord))
      replaced  == IF node = Undefined THEN rt
                   ELSE ReplaceWith(rt, NodePath(address),
                          ReplacementNodes(content, text, nodes, preserveWord, replacementIndex))
  IN  [threw |-> textMatch = <<>>, root |-> replaced, mapping |-> mp, node |-> node,
       address |-> address, matches |-> Len(textMatch)]

\* A replaceText that rebuilds the mapping itself after the substitution.
replaceText_Remaps(rt, mp, text, nodes, at, preserveWord, replacementIndex, caseSensitive) ==
  LET address   == TargetAddress(mp, text, at, preserveWord, caseSensitive)
      node      == TargetNode(rt, mp, text, at, preserveWord, caseSensitive)
      content   == TextContent(node)
      textMatch == IF node = Undefined THEN <<>>
                   ELSE StringMatch(content, ReplacePattern(text, preserveWord))
      replaced  == ReplaceWith(rt, NodePath(address),
                     ReplacementNodes(content, text, nodes, preserveWord, replacementIndex))
  IN  IF textMatch = <<>>
      THEN [threw |-> TRUE, root |-> rt, mapping |-> mp, node |-> node,
            address |-> address, matches |-> 0]
      ELSE [threw |-> FALSE, root |-> replaced, mapping |-> getTextNodeMapping(replaced, <<>>),
            node |-> node, address |-> address, matches |-> Len(textMatch)]

\* replaceText: whether it throws, and the tree and the mapping it leaves;
\* with them the node it resolved and the number of matches in its text.
replaceTextResult(rt, mp, text, nodes, at, preserveWord, replacementIndex, caseSensitive) ==
  LET address   == TargetAddress(mp, text, at, preserveWord, caseSensitive)
      node      == TargetNode(rt, mp, text, at, preserveWord, caseSensitive)
      content   == TextContent(node)
      textMatch == IF node = Undefined THEN <<>>
                   ELSE StringMatch(content, ReplacePattern(text, preserveWord))
  IN  IF textMatch = <<>>
      THEN [threw |-> TRUE, root |-> rt, mapping |-> mp, node |-> node,
            address |-> address, matches |-> 0]
      ELSE [threw   |-> FALSE,
            root    |-> ReplaceWith(rt, NodePath(address),
                          ReplacementNodes(content, text, nodes, preserveWord, replacementIndex)),
            mapping |-> mp,
            node    |-> node,
            address |-> address,
            matches |-> Len(textMatch)]

\* remap: mapping ?? this.getTextNodeMapping(this.root)
remapResult(rt, given, m) == IF given THEN m ELSE getTextNodeMapping(rt, <<>>)

\* ------------------------------------------------------------------- inputs
\* All strings over chars of length at most n.
RECURSIVE StringsUpTo(_, _)
StringsUpTo(chars, n) ==
  IF n = 0 THEN {Str0}
  ELSE LET shorter == StringsUpTo(chars, n - 1)
       IN  shorter \cup {Append(t, c) : t \in shorter, c \in chars}

\* The characters of the leaf of an initial one-leaf tree: a letter, a
\* whitespace boundary character and a punctuation boundary character that
\* is also a RegExp special character.
LeafAlphabet == {"a", " ", "."}

\* <div><p>text</p></div> for every text: the leaf is at address "0.0".
LeafRoots ==
  {Element(<<Element(<<TextNode(t)>>)>>) : t \in StringsUpTo(LeafAlphabet, MaxLen)}

\* Trees with several leaves: the same word in both cases in two leaves;
\* and two leaves holding the same word, one of them twice with one boundary
\* character between, next to an element without children.
StructuredRoots ==
  { Element(<<Element(<<TextNode(<<"A">>)>>), TextNode(<<"a">>)>>),
    Element(<<Element(<<TextNode(<<"a", " ", "a">>), Element(<<>>)>>), TextNode(<<".", "a">>)>>) }

\* A leaf holding a word three times, two boundary characters between.
LongLeafRoot == Element(<<Element(<<TextNode(<<"a", " ", " ", "a", " ", " ", "a">>)>>)>>)

\* A leaf holding the word inside a larger word and then on its own, as
\* "Done is the one thing." holds "one".
FragmentLeafRoot == Element(<<Element(<<TextNode(<<"a", "a", " ", "a">>)>>)>>)

\* The search texts of replaceText and of the lookups.
Searches == {<<"a">>, <<"A">>, <<".", "a">>}

\* A text no leaf holds but that the concatenated text of a tree may.
QueryTexts == Searches \cup {<<"A", "a">>}

\* The replacement nodes passed for a search text: a text node holding the
\* same word, a text node holding another word, an element around the word.
NodeArgs(text) ==
  { <<TextNode(text)>>, <<TextNode(<<"b">>)>>, <<Element(<<TextNode(text)>>)>> }

\* The `at` option: omitted (or empty), the address of a leaf, of a
\* container, and one with a trailing letter, of a node that may not exist.
AtArgs == {Str0, <<"0", ".", "0">>, <<"0">>, <<"1", "x">>}

Addresses == AtArgs \ {Str0}

OptionArgs == {"omitted", "true", "false"}

\* The mappings passed to remap(mapping).
MappingArgs == { << <<<<"a">>, <<"0">>>> >> }

\* ------------------------------------------------------------ caller's view
NoCall ==
  [op |-> "idle", text |-> Str0, nodes |-> <<>>, at |-> Str0, preserveWord |-> "omitted",
   replacementIndex |-> 0, caseSensitive |-> TRUE]

NoRet ==
  [threw |-> FALSE, node |-> Undefined, address |-> Null, text |-> Null,
   addresses |-> <<>>, flag |-> FALSE, matches |-> 0, synced |-> FALSE]

Idle == call.op = "idle"

\* -------------------------------------------------------------------- Init
\* new Aracari(root): the mapping is built from the root.
Constructed(roots, done) ==
  /\ root \in roots
  /\ mapping = getTextNodeMapping(root, <<>>)
  /\ synced = TRUE
  /\ nrep = done
  /\ call = NoCall
  /\ ret = NoRet

Init == Constructed(StructuredRoots, 0)

\* One-leaf trees, for the last replaceText of a run.
InitLeaf == Constructed(LeafRoots \cup {LongLeafRoot, FragmentLeafRoot}, MaxReplace - 1)

\* ----------------------------------------------------------------- actions
replaceText(text, nodes, at, preserveWord, replacementIndex, caseSensitive) ==
  LET r == replaceTextResult(root, mapping, text, nodes, at, preserveWord,
                             replacementIndex, caseSensitive)
  IN  /\ Idle
      /\ nrep < MaxReplace
      /\ root' = r.root
      /\ mapping' = r.mapping
      /\ synced' = (synced /\ r.threw)
      /\ nrep' = IF r.threw THEN nrep ELSE nrep + 1
      /\ call' = [NoCall EXCEPT !.op = "replaceText", !.text = text, !.nodes = nodes,
                    !.at = at, !.preserveWord = preserveWord,
                    !.replacementIndex = replacementIndex,
                    !.caseSensitive = caseSensitive]
      /\ ret' = [NoRet EXCEPT !.threw = r.threw, !.node = r.node, !.address = r.address,
                    !.matches = r.matches, !.synced = synced]

remap ==
  /\ Idle
  /\ mapping' = remapResult(root, FALSE, <<>>)
  /\ synced' = TRUE
  /\ call' = [NoCall EXCEPT !.op = "remap"]
  /\ ret' = NoRet
  /\ UNCHANGED <<root, nrep>>

remapWith(m) ==
  /\ Idle
  /\ mapping' = remapResult(root, TRUE, m)
  /\ synced' = FALSE
  /\ call' = [NoCall EXCEPT !.op = "remapWith", !.nodes = m]
  /\ ret' = NoRet
  /\ UNCHANGED <<root, nrep>>

Query(op, text, caseSensitive, preserveWord, address, result) ==
  /\ Idle
  /\ call' = [NoCall EXCEPT !.op = op, !.text = text, !.caseSensitive = caseSensitive,
                !.preserveWord = preserveWord, !.at = address]
  /\ ret' = result
  /\ UNCHANGED <<root, mapping, synced, nrep>>

getTextCall ==
  Query("getText", Str0, TRUE, "omitted", Str0, [NoRet EXCEPT !.text = getText(mapping)])

getAddressForTextCall(text, caseSensitive, preserveWord) ==
  Query("getAddressForText", text, caseSensitive, preserveWord, Str0,
        [NoRet EXCEPT !.address =
           getAddressForText(mapping, text, caseSensitive, OrDefault(preserveWord, FALSE))])

getAddressesForTextCall(text, caseSensitive, preserveWord) ==
  Query("getAddressesForText", text, caseSensitive, preserveWord, Str0,
        [NoRet EXCEPT !.addresses =
           getAddressesForText(mapping, text, caseSensitive, OrDefault(preserveWord, FALSE))])

getTextByAddressCall(address) ==
  Query("getTextByAddress", Str0, TRUE, "omitted", address,
        [NoRet EXCEPT !.text = getTextByAddress(mapping, address)])

isInSingleNodeCall(text, caseSensitive) ==
  Query("isInSingleNode", text, caseSensitive, "omitted", Str0,
        [NoRet EXCEPT !.flag = isInSingleNode(mapping, text, caseSensitive)])

getTextNodeCall(text, caseSensitive, preserveWord) ==
  Query("getTextNode", text, caseSensitive, preserveWord, Str0,
        [NoRet EXCEPT !.node =
           getTextNode(root, mapping, text, caseSensitive, OrDefault(preserveWord, FALSE))])

getNodeByAddressCall(address) ==
  Query("getNodeByAddress", Str0, TRUE, "omitted", address,
        [NoRet EXCEPT !.node = getNodeByAddress(root, address)])

\* The caller goes on to its next call.
Return ==
  /\ ~Idle
  /\ call' = NoCall
  /\ ret' = NoRet
  /\ UNCHANGED <<root, mapping, synced, nrep>>

Next ==
  \/ \E text \in Searches, at \in AtArgs, preserveWord \in OptionArgs,
        replacementIndex \in 0..MaxIndex, caseSensitive \in BOOLEAN :
       \E nodes \in NodeArgs(text) :
         \* caseSensitive is read on the lookup path only
         /\ at = Str0 \/ caseSensitive
         /\ replaceText(text, nodes, at, preserveWord, replacementIndex, caseSensitive)
  \/ remap
  \/ \E m \in MappingArgs : remapWith(m)
  \/ getTextCall
  \/ \E text \in QueryTexts, caseSensitive \in BOOLEAN, preserveWord \in {"omitted", "true"} :
       getAddressForTextCall(text, caseSensitive, preserveWord)
  \/ \E text \in QueryTexts, caseSensitive \in BOOLEAN, preserveWord \in {"omitted", "true"} :
       getAddressesForTextCall(text, caseSensitive, preserveWord)
  \/ \E address \in Addresses : getTextByAddressCall(address)
  \/ \E text \in QueryTexts, caseSensitive \in BOOLEAN : isInSingleNodeCall(text, caseSensitive)
  \/ \E text \in QueryTexts, caseSensitive \in BOOLEAN, preserveWord \in {"omitted", "true"} :
       getTextNodeCall(text, caseSensitive, preserveWord)
  \/ \E address \in Addresses : getNodeByAddressCall(address)
  \/ Return

Spec == Init /\ [][Next]_vars

SpecLeaf == InitLeaf /\ [][Next]_vars

\* ------------------------------------------------- vocabulary of the claims
\* The 0-based positions at which t occurs in s.
Occurrences(s, t) == {p \in 0..(Len(s) - Len(t)) : Slice(s, p, p + Len(t)) = t}

\* The occurrence of length n at p in s is a whole word: the start of s or a
\* boundary character before it, the end of s or a boundary character after.
WholeWordAt(s, p, n) ==
  /\ p = 0 \/ IsBoundaryChar(s[p])
  /\ p + n = Len(s) \/ IsBoundaryChar(s[p + n + 1])

WholeWordOccurrences(s, t) == {p \in Occurrences(s, t) : WholeWordAt(s, p, Len(t))}

\* s with the n characters at p replaced by r.
ReplaceAt(s, p, n, r) == Slice(s, 0, p) \o r \o Slice(s, p + n, Len(s))

\* s contains t, letter case ignored or not.
Contains(s, t, ignoreCase) ==
  \E p \in 0..(Len(s) - Len(t)) :
    \A i \in 1..Len(t) : s[p + i] = t[i] \/ (ignoreCase /\ Fold(s[p + i]) = Fold(t[i]))

\* The k-th smallest (k from 1) element of a set of numbers.
Nth(S, k) == CHOOSE p \in S : Cardinality({x \in S : x < p}) = k - 1

\* The paths (0-based child indices) of the descendants of node.
RECURSIVE Paths(_)
Paths(node) ==
  UNION { {<<i - 1>>} \cup {<<i - 1>> \o p : p \in Paths(node.childNodes[i])}
          : i \in 1..Len(node.childNodes) }

RECURSIVE NodeAt(_, _)
NodeAt(node, path) ==
  IF path = <<>> THEN node ELSE NodeAt(node.childNodes[Head(path) + 1], Tail(path))

TextPaths(rt) == {p \in Paths(rt) : NodeAt(rt, p).nodeType = TEXT_NODE}

\* p comes before q in document order (neither is an ancestor of the other).
RECURSIVE DocBefore(_, _)
DocBefore(p, q) ==
  /\ p # <<>> /\ q # <<>>
  /\ \/ Head(p) < Head(q)
     \/ Head(p) = Head(q) /\ DocBefore(Tail(p), Tail(q))

\* The text of the tree that comes before the node at path.
RECURSIVE TextBefore(_, _)
TextBefore(parent, path) ==
  KidsText(SubSeq(parent.childNodes, 1, Head(path)))
  \o (IF Len(path) = 1 THEN Str0
      ELSE TextBefore(parent.childNodes[Head(path) + 1], Tail(path)))

\* A step in which replaceText replaced a text leaf.
LeafReplaced ==
  /\ call'.op = "replaceText"
  /\ ~ret'.threw
  /\ ret'.node.nodeType = TEXT_NODE

\* The text of the nodes passed to replaceText.
ReplacementText == KidsText(call'.nodes)

\* The text of the tree in front of the leaf replaceText resolved.
LeafOffset == Len(TextBefore(root, NodePath(ret'.address)))

\* ------------------------------------------------------------------ claims
\* C1: for a replaceText that succeeds on a leaf with replacementIndex in
\* range, on a mapping in step with the tree, getText() after remap() is the
\* text before with one occurrence of the search text in that leaf replaced
\* by the text of the replacement nodes, every other character kept once
\* and in place.
C1_ReplaceKeepsOtherText ==
  [][ (LeafReplaced /\ synced /\ call'.replacementIndex < ret'.matches)
      => \E p \in Occurrences(ret'.node.data, call'.text) :
           getText(remapResult(root', FALSE, <<>>))
             = ReplaceAt(getText(mapping), LeafOffset + p, Len(call'.text), ReplacementText)
    ]_vars

\* C2: a replaceText that fails with NotFound leaves the tree and the mapping
\* as they were, and with them getText().
C2_FailedReplaceChangesNothing ==
  [][ (call'.op = "replaceText" /\ ret'.threw)
      => /\ root' = root
         /\ mapping' = mapping
         /\ getText(mapping') = getText(mapping)
    ]_vars

\* C2 witness: a replaceText has failed after an earlier one succeeded.
C2_Witness == call.op = "replaceText" /\ ret.threw /\ nrep >= 1

\* C3: in word-preserving mode, when the leaf holds m whole-word occurrences
\* of the search text and replacementIndex = k < m, replaceText replaces the
\* (k+1)-th of them from the left and leaves the rest of the text in place
\* (stated for a search text without boundary characters, whose occurrences
\* cannot be mistaken for their surroundings).
C3_IndexSelectsOccurrence ==
  [][ (LeafReplaced /\ call'.preserveWord # "false"
       /\ \A i \in 1..Len(call'.text) : ~IsBoundaryChar(call'.text[i]))
      => LET occ == WholeWordOccurrences(ret'.node.data, call'.text)
             k   == call'.replacementIndex
         IN  k < Cardinality(occ)
             => TextContent(root')
                  = ReplaceAt(TextContent(root), LeafOffset + Nth(occ, k + 1),
                              Len(call'.text), ReplacementText)
    ]_vars

\* The occurrences of the search text in the resolved node's text whose
\* replacement by the replacement text gives the text of the new tree.
ReplacedAt ==
  {p \in Occurrences(TextContent(ret'.node), call'.text) :
     TextContent(root')
       = ReplaceAt(TextContent(root), LeafOffset + p, Len(call'.text), ReplacementText)}

\* C4: with preserveWord true or omitted, the occurrence replaceText
\* replaced (when the new text tells which one it was) has the start of the
\* text or a boundary character before it and the end of the text or a
\* boundary character after it.
C4_ReplacedOccurrenceIsWholeWord ==
  [][ (call'.op = "replaceText" /\ ~ret'.threw /\ call'.preserveWord # "false"
       /\ Cardinality(ReplacedAt) = 1)
      => \A p \in ReplacedAt : WholeWordAt(TextContent(ret'.node), p, Len(call'.text))
    ]_vars

\* C4 witness: a word was replaced in a leaf that also holds the search text
\* inside a larger word.
C4_Witness ==
  /\ call.op = "replaceText" /\ ~ret.threw /\ call.preserveWord # "false"
  /\ ret.node.nodeType = TEXT_NODE
  /\ Occurrences(ret.node.data, call.text) # WholeWordOccurrences(ret.node.data, call.text)

\* The indices of the mapping entries whose text contains the query, letter
\* case compared as the caseSensitive argument names it.
NamedMatches(text, caseSensitive) ==
  {i \in 1..Len(mapping) : Contains(mapping[i][1], text, ~caseSensitive)}

\* The addresses of a set of mapping entries, in mapping order.
AddressesOf(hits) ==
  LET Hit(e) == \E i \in hits : mapping[i] = e
      kept   == SelectSeq(mapping, Hit)
  IN  [i \in 1..Len(kept) |-> kept[i][2]]

\* C5: caseSensitive = true makes a lookup match only the entries that hold
\* the query in the same letter case, caseSensitive = false also those that
\* hold it in another case: for getAddressesForText, getAddressForText,
\* getTextNode and isInSingleNode.
C5_CaseSensitiveAsNamed ==
  LET hits  == NamedMatches(call.text, call.caseSensitive)
      addrs == AddressesOf(hits)
  IN  call.preserveWord = "omitted"
      => /\ call.op = "getAddressesForText" => ret.addresses = addrs
         /\ call.op = "getAddressForText"
              => ret.address = (IF hits = {} THEN Null ELSE addrs[1])
         /\ call.op = "getTextNode"
              => ret.node = (IF hits = {} THEN Undefined ELSE getNodeByAddress(root, addrs[1]))
         /\ call.op = "isInSingleNode"
              => /\ hits = {} => ~ret.flag
                 /\ Cardinality(hits) = 1 => ret.flag

\* The indices of the mapping entries the pattern of the lookups matches.
LookupHits(text, caseSensitive) ==
  {i \in 1..Len(mapping) : LookupMatches(mapping[i][1], text, caseSensitive, FALSE)}

\* C6 as claimed: isInSingleNode is true exactly when one and only one
\* mapping entry matches the text.
C6_TrueForExactlyOneEntry ==
  call.op = "isInSingleNode"
    => (ret.flag <=> Cardinality(LookupHits(call.text, call.caseSensitive)) = 1)

\* C6 as amended: isInSingleNode is true exactly when at least one mapping
\* entry matches the text: false when none does (a text spread over several
\* leaves included), true when one, two or more do.
C6_TrueForSomeEntry ==
  call.op = "isInSingleNode"
    => (ret.flag <=> LookupHits(call.text, call.caseSensitive) # {})

\* C6 witness: isInSingleNode was asked about a text two entries hold.
C6_Witness ==
  /\ call.op = "isInSingleNode"
  /\ ret.flag
  /\ Cardinality(LookupHits(call.text, call.caseSensitive)) >= 2

\* The paths of the text leaves whose text contains s, in the same case.
Holders(s) == {p \in TextPaths(root) : Contains(NodeAt(root, p).data, s, FALSE)}

\* C7: for a string s held by exactly one leaf of the mapped tree,
\* getTextByAddress(getAddressForText(s)) is the text of that leaf.
C7_AddressRoundTrip ==
  (/\ synced
   /\ call.op = "getAddressForText" /\ call.caseSensitive /\ call.preserveWord = "omitted"
   /\ Cardinality(Holders(call.text)) = 1)
    => getTextByAddress(mapping, ret.address)
         = NodeAt(root, CHOOSE p \in Holders(call.text) : TRUE).data

\* C8: only remap changes the mapping: replaceText, the queries and the
\* return to the caller leave it (and so getText() and the lookups) as it
\* was; remap() makes it the mapping built from the tree, remap(m) makes it m.
C8_MappingChangesOnlyByRemap ==
  [][ /\ call'.op \notin {"remap", "remapWith"}
           => /\ mapping' = mapping
              /\ getText(mapping') = getText(mapping)
              /\ \A t \in QueryTexts :
                   getAddressesForText(mapping', t, TRUE, FALSE)
                     = getAddressesForText(mapping, t, TRUE, FALSE)
      /\ call'.op = "remap"
           => mapping' = getTextNodeMapping(root, <<>>) /\ root' = root
      /\ call'.op = "remapWith" => mapping' = call'.nodes /\ root' = root
    ]_vars

\* C8 witness: replaceText has changed the tree under a mapping that was in
\* step with it, and the mapping still shows the text from before.
C8_Witness ==
  /\ call.op = "replaceText" /\ ~ret.threw /\ ret.synced
  /\ getText(mapping) # TextContent(root)

\* C9: after construction or remap(), the mapping lists exactly the text
\* nodes of the tree in document order: as many entries as text nodes, every
\* address a well-formed path that getNodeByAddress resolves to a text node
\* holding the entry's text, the addresses ascending in document order (so
\* distinct), a rebuild giving the same mapping, and getText() the text of
\* the tree.
C9_MappingIsPreorderOfTextNodes ==
  synced
    => /\ Len(mapping) = Cardinality(TextPaths(root))
       /\ \A i \in 1..Len(mapping) :
            LET address == mapping[i][2]
                node    == getNodeByAddress(root, address)
            IN  /\ \A j \in 1..Len(ParsePath(address)) : ~ParsePath(address)[j].nan
                /\ NodePath(address) \in TextPaths(root)
                /\ node = NodeAt(root, NodePath(address))
                /\ node.nodeType = TEXT_NODE
                /\ node.data = mapping[i][1]
       /\ \A i, j \in 1..Len(mapping) :
            i < j => DocBefore(NodePath(mapping[i][2]), NodePath(mapping[j][2]))
       /\ getTextNodeMapping(root, <<>>) = mapping
       /\ getText(mapping) = TextContent(root)

\* C9 witness: remap() has rebuilt the mapping of a tree that two
\* replaceText calls have changed.
C9_Witness == synced /\ call.op = "remap" /\ nrep >= 2 /\ Len(mapping) >= 4

\* C10: the node replaceText replaces is a text-typed leaf.
C10_ReplacedNodeIsTextLeaf ==
  (call.op = "replaceText" /\ ~ret.threw) => ret.node.nodeType = TEXT_NODE

\* The node list that replaces a leaf holding data when the n characters at
\* p are replaced by nodes: the text before as a node unless it is empty, the
\* nodes, the text after as a node unless it is empty.
SubstitutionList(data, p, n, nodes) ==
  LET prefix == Slice(data, 0, p)
      suffix == Slice(data, p + n, Len(data))
  IN  (IF prefix = Str0 THEN <<>> ELSE <<TextNode(prefix)>>)
      \o nodes
      \o (IF suffix = Str0 THEN <<>> ELSE <<TextNode(suffix)>>)

\* C11: a replaceText that succeeds on a leaf makes one substitution at the
\* leaf's place: for some occurrence of the search text in the leaf, the new
\* tree is the old one with the leaf replaced, among its parent's children,
\* by the text before the occurrence (no node when empty), the replacement
\* nodes in their order and the text after it (no node when empty); every
\* other node is as it was.
C11_OneSubstitutionAtTarget ==
  [][ LeafReplaced
      => \E p \in Occurrences(ret'.node.data, call'.text) :
           root' = ReplaceWith(root, NodePath(ret'.address),
                     SubstitutionList(ret'.node.data, p, Len(call'.text), call'.nodes))
    ]_vars

\* The text leaves of the tree in which the replacement pattern of the
\* recorded replaceText call finds a match.
AcceptingLeaves ==
  {p \in TextPaths(root) :
     StringMatch(NodeAt(root, p).data, ReplacePattern(call.text, call.preserveWord)) # <<>>}

\* C12: the lookup and the replacement pattern of replaceText agree: called
\* without `at` on a mapping in step with the tree, replaceText does not
\* throw when its lookup resolved a node, and does not throw when some leaf
\* holds an occurrence its replacement pattern accepts (a call that throws
\* leaves the tree as it was). Stated for caseSensitive = false, where the
\* lookup compares letter case as the replacement pattern does.
C12_LookupAndPatternAgree ==
  (/\ call.op = "replaceText" /\ call.at = Str0 /\ ~call.caseSensitive
   /\ ret.synced /\ ret.threw)
    => /\ ret.node = Undefined
       /\ AcceptingLeaves = {}

====
